---- MODULE Spec2Model ----
(***************************************************************************)
(* The invite-join handler `join` of                                       *)
(* crates/delta/src/routes/invites/invite_join.rs, run by several          *)
(* concurrent requests against one shared entity store.                    *)
(*                                                                         *)
(* Every `.await` of the handler is a point where another request may run, *)
(* so every awaited collaborator call is one atomic action of one request. *)
(* The collaborators (can_acquire_server, as_invite, fetch_server,         *)
(* Member::create, fetch_channel, add_user_to_group, fetch_users,          *)
(* into_known, the v0 `into` conversions) live in other crates; they are   *)
(* modelled from their contracts in spec.md sections 3, 4 and 6.           *)
(***************************************************************************)
EXTENDS Naturals, Integers, Sequences, FiniteSets, TLC

VARIABLES reqs, members, channels, faults

vars == <<reqs, members, channels, faults>>

(* ------------------------------ bounds -------------------------------- *)

\* features.limits.*.servers of the configuration (config/src/lib.rs:187):
\* the per-user limit on joined servers.  Its value is deployment data.
ServersLimit == 1

\* How many transient store failures (StoreUnavailable) may be injected.
MaxFaults == 1

(* --------------------------- the world -------------------------------- *)

Requests == {"r1", "r2"}

Users == {"U1", "U2", "U3", "B1"}

\* Accounts whose `bot` field is Some(..).
Bots == {"B1"}

\* Servers a user has joined besides the ones modelled here: U3 sits at
\* the quota whatever the limit is.
OtherServers(u) == IF u = "U3" THEN ServersLimit ELSE 0

NoErr == "none"

NoInvite == [kind |-> "none", server |-> "none", channel |-> "none", creator |-> "none"]

NoServer == [id |-> "none", channels |-> <<>>]

NoChannel == [id |-> "none", kind |-> "none", recipients |-> <<>>]

\* The invite collection: Invite::Server { server, creator, .. } and
\* Invite::Group { channel, creator, .. }.
Invites ==
    [ inv_s1 |-> [kind |-> "Server", server |-> "S1", channel |-> "C1", creator |-> "U3"],
      inv_s0 |-> [kind |-> "Server", server |-> "S0", channel |-> "C1", creator |-> "U3"],
      inv_g1 |-> [kind |-> "Group", server |-> "none", channel |-> "G1", creator |-> "U3"],
      inv_g0 |-> [kind |-> "Group", server |-> "none", channel |-> "G0", creator |-> "U3"],
      inv_t1 |-> [kind |-> "Group", server |-> "none", channel |-> "T1", creator |-> "U3"] ]

\* What a caller may put in the path: the five invites and an unknown id.
Targets == DOMAIN Invites \cup {"inv_zz"}

\* The server collection (S0 of inv_s0 is not in it).
Servers == [ S1 |-> [id |-> "S1", channels |-> <<"C1", "C2">>] ]

\* A text channel of a server, as the channel collection holds it.
ServerChannel(id) == [id |-> id, kind |-> "TextChannel", recipients |-> <<>>]

\* Recipients of group G1 before any request ran.
InitRecipients == <<"U3">>

InitChannels ==
    [ G1 |-> [id |-> "G1", kind |-> "Group", recipients |-> InitRecipients],
      T1 |-> [id |-> "T1", kind |-> "TextChannel", recipients |-> <<>>] ]

(* --------------------------- helpers ---------------------------------- *)

Contains(s, x) == \E i \in DOMAIN s : s[i] = x

Count(s, x) == Cardinality({i \in DOMAIN s : s[i] = x})

Bijections(n) == {q \in [1..n -> 1..n] : \A i, j \in 1..n : q[i] = q[j] => i = j}

\* Every order of the elements of s.
Orders(s) == {[i \in 1..Len(s) |-> s[q[i]]] : q \in Bijections(Len(s))}

Outcome(e, v) == [err |-> e, val |-> v]

\* A collaborator call may also fail transiently while faults remain.
Transient(f, v) == IF f < MaxFaults THEN {Outcome("StoreUnavailable", v)} ELSE {}

(* ------------- collaborators (other crates; from spec.md) ------------- *)
\* Each returns the set of outcomes the call may have: err = NoErr and the
\* value, or an error kind of spec.md section 7.

\* checkServerQuota(actor) -> Ok | QuotaExceeded
CanAcquireServer(u, mem, f) ==
    (IF OtherServers(u) + Cardinality({m \in mem : m[2] = u}) < ServersLimit
     THEN {Outcome(NoErr, TRUE)}
     ELSE {Outcome("QuotaExceeded", TRUE)}) \cup Transient(f, TRUE)

\* lookupInviteById(id) -> Invite | NotFound
AsInvite(t, f) ==
    (IF t \in DOMAIN Invites
     THEN {Outcome(NoErr, Invites[t])}
     ELSE {Outcome("NotFound", NoInvite)}) \cup Transient(f, NoInvite)

\* fetchServer(id) -> Server | NotFound
FetchServer(id, f) ==
    (IF id \in DOMAIN Servers
     THEN {Outcome(NoErr, Servers[id])}
     ELSE {Outcome("NotFound", NoServer)}) \cup Transient(f, NoServer)

\* fetchChannel(id) -> Channel | NotFound
FetchChannel(id, chans, f) ==
    (IF id \in DOMAIN chans
     THEN {Outcome(NoErr, chans[id])}
     ELSE {Outcome("NotFound", NoChannel)}) \cup Transient(f, NoChannel)

\* createMember(server, actor, None) -> Channel[] | Error, atomic: inserts
\* the Member record and returns the server's channels; a user who is a
\* member already is refused.
MemberCreate(server, u, mem, f) ==
    (IF <<server.id, u>> \in mem
     THEN {Outcome("AlreadyMember", [channels |-> <<>>, members |-> mem])}
     ELSE {Outcome(NoErr,
              [channels |-> [i \in 1..Len(server.channels) |-> ServerChannel(server.channels[i])],
               members |-> mem \cup {<<server.id, u>>}])})
    \cup Transient(f, [channels |-> <<>>, members |-> mem])

\* addUserToGroup(channel, actor, creatorId), atomic on the stored record:
\* a channel that is no group is refused, an actor already among the stored
\* recipients is refused, otherwise the actor is appended to the stored
\* recipient list and, in place, to the caller's copy of the channel.
AddUserToGroup(local, u, chans, f) ==
    (IF local.kind # "Group"
     THEN {Outcome("Internal", [local |-> local, stored |-> chans])}
     ELSE IF Contains(chans[local.id].recipients, u)
     THEN {Outcome("AlreadyMember", [local |-> local, stored |-> chans])}
     ELSE {Outcome(NoErr,
              [local |-> [local EXCEPT !.recipients = Append(@, u)],
               stored |-> [chans EXCEPT ![local.id].recipients = Append(@, u)]])})
    \cup Transient(f, [local |-> local, stored |-> chans])

\* fetchUsers(ids) -> User[]: the users with these ids (all of them exist),
\* in an order the store chooses.
FetchUsers(ids, f) ==
    {Outcome(NoErr, o) : o \in Orders(ids)} \cup Transient(f, <<>>)

\* project(user, actor) -> RelativeUserView
IntoKnown(other, actor) ==
    [_id |-> other, relationship |-> IF other = actor THEN "User" ELSE "None"]

\* Channel -> v0::Channel
ChannelInto(c) == [channel_type |-> c.kind, _id |-> c.id, recipients |-> c.recipients]

\* Server -> v0::Server
ServerInto(s) == [_id |-> s.id, channels |-> s.channels]

NoV0Channel == ChannelInto(NoChannel)

NoV0Server == ServerInto(NoServer)

(* ------------------------- the handler: join -------------------------- *)

Pending ==
    [tag |-> "Pending", err |-> NoErr, server |-> NoV0Server, channels |-> <<>>,
     channel |-> NoV0Channel, users |-> <<>>]

\* Err(e)
ErrResult(e) == [Pending EXCEPT !.tag = "Err", !.err = e]

\* Ok(Json(InviteJoinResponse::Server { channels, server }))
ServerResponse(chs, srv) == [Pending EXCEPT !.tag = "Server", !.channels = chs, !.server = srv]

\* Ok(Json(InviteJoinResponse::Group { users, channel }))
GroupResponse(us, ch) == [Pending EXCEPT !.tag = "Group", !.users = us, !.channel = ch]

\* The handler panicked (unreachable!()): no value is returned.
Panic == [Pending EXCEPT !.tag = "Panic"]

Fresh ==
    [pc |-> "idle", user |-> "none", target |-> "none", invite |-> NoInvite,
     server |-> NoServer, channel |-> NoChannel, fetched |-> <<>>, created |-> <<>>,
     result |-> Pending, log |-> <<>>, writes |-> 0, committed |-> <<>>]

Entry(op, e) == [op |-> op, err |-> e]

IsBot_Never(u) == FALSE

\* user.bot.is_some()
IsBot(u) == u \in Bots

\* The `?` after each awaited call: the callee's error is returned as it is.
Propagate(e) == e

Successor_SkipQuota(pc, inv) ==
    CASE pc = "idle" -> "bot_check"
      [] pc = "bot_check" -> "resolve"
      [] pc = "quota" -> "resolve"
      [] pc = "resolve" -> IF inv.kind = "Server" THEN "fetch_server" ELSE "fetch_channel"
      [] pc = "fetch_server" -> "create"
      [] pc = "fetch_channel" -> "add"
      [] pc = "add" -> "fetch_users"
      [] pc = "fetch_users" -> "project"
      [] OTHER -> "done"

Successor_ResolveFirst(pc, inv) ==
    CASE pc = "idle" -> "resolve"
      [] pc = "resolve" -> "bot_check"
      [] pc = "bot_check" -> "quota"
      [] pc = "quota" -> IF inv.kind = "Server" THEN "fetch_server" ELSE "fetch_channel"
      [] pc = "fetch_server" -> "create"
      [] pc = "fetch_channel" -> "add"
      [] pc = "add" -> "fetch_users"
      [] pc = "fetch_users" -> "project"
      [] OTHER -> "done"

\* The statement that follows the one at pc when it did not return: the
\* handler's statements in program order, with the match on the invite.
Successor(pc, inv) ==
    CASE pc = "idle" -> "bot_check"
      [] pc = "bot_check" -> "quota"
      [] pc = "quota" -> "resolve"
      [] pc = "resolve" -> IF inv.kind = "Server" THEN "fetch_server" ELSE "fetch_channel"
      [] pc = "fetch_server" -> "create"
      [] pc = "fetch_channel" -> "add"
      [] pc = "add" -> "fetch_users"
      [] pc = "fetch_users" -> "project"
      [] OTHER -> "done"

BuildChannels_Reversed(created) ==
    [i \in 1..Len(created) |-> ChannelInto(created[Len(created) + 1 - i])]

\* channels.into_iter().map(|c| c.into()).collect()
BuildChannels(created) == [i \in 1..Len(created) |-> ChannelInto(created[i])]

BuildUsers_ExcludeActor(fetched, actor) ==
    LET others == SelectSeq(fetched, LAMBDA x : x # actor)
    IN  [i \in 1..Len(others) |-> IntoKnown(others[i], actor)]

\* join_all(users.into_iter().map(|other_user| other_user.into_known(&user))).await:
\* one view per fetched user, in the order of the fetched list.
BuildUsers(fetched, actor) == [i \in 1..Len(fetched) |-> IntoKnown(fetched[i], actor)]

\* A statement returned Err(e): the request is over.
Return(q, op, e) ==
    [q EXCEPT !.pc = "done", !.result = ErrResult(e), !.log = Append(@, Entry(op, e))]

\* A statement went through: on to the next one.
Proceed(q, op) ==
    [q EXCEPT !.pc = Successor(q.pc, q.invite), !.log = Append(@, Entry(op, NoErr))]

Fault(e) == faults' = IF e = "StoreUnavailable" THEN faults + 1 ELSE faults

\* The framework calls the handler with the authenticated user and the
\* path segment.
Receive(r) ==
    /\ reqs[r].pc = "idle"
    /\ \E u \in Users, t \in Targets :
          reqs' = [reqs EXCEPT ![r] =
                      [@ EXCEPT !.pc = Successor("idle", NoInvite), !.user = u, !.target = t]]
    /\ UNCHANGED <<members, channels, faults>>

\* if user.bot.is_some() { return Err(create_error!(IsBot)); }
BotCheck(r) ==
    /\ reqs[r].pc = "bot_check"
    /\ reqs' = [reqs EXCEPT ![r] =
                  IF IsBot(@.user) THEN Return(@, "bot_check", "IsBot")
                  ELSE Proceed(@, "bot_check")]
    /\ UNCHANGED <<members, channels, faults>>

\* user.can_acquire_server(db).await?;
QuotaCheck(r) ==
    /\ reqs[r].pc = "quota"
    /\ \E o \in CanAcquireServer(reqs[r].user, members, faults) :
          /\ reqs' = [reqs EXCEPT ![r] =
                        IF o.err # NoErr THEN Return(@, "can_acquire_server", Propagate(o.err))
                        ELSE Proceed(@, "can_acquire_server")]
          /\ Fault(o.err)
    /\ UNCHANGED <<members, channels>>

\* let invite = target.as_invite(db).await?;
Resolve(r) ==
    /\ reqs[r].pc = "resolve"
    /\ \E o \in AsInvite(reqs[r].target, faults) :
          /\ reqs' = [reqs EXCEPT ![r] =
                        IF o.err # NoErr THEN Return(@, "as_invite", Propagate(o.err))
                        ELSE Proceed([@ EXCEPT !.invite = o.val], "as_invite")]
          /\ Fault(o.err)
    /\ UNCHANGED <<members, channels>>

FetchServerStep_Unverified(r) ==
    /\ reqs[r].pc = "fetch_server"
    /\ reqs' = [reqs EXCEPT ![r] =
                  Proceed([@ EXCEPT !.server = [id |-> reqs[r].invite.server, channels |-> <<>>]],
                          "fetch_server")]
    /\ UNCHANGED <<members, channels, faults>>

\* let server = db.fetch_server(server).await?;
FetchServerStep(r) ==
    /\ reqs[r].pc = "fetch_server"
    /\ \E o \in FetchServer(reqs[r].invite.server, faults) :
          /\ reqs' = [reqs EXCEPT ![r] =
                        IF o.err # NoErr THEN Return(@, "fetch_server", Propagate(o.err))
                        ELSE Proceed([@ EXCEPT !.server = o.val], "fetch_server")]
          /\ Fault(o.err)
    /\ UNCHANGED <<members, channels>>

\* let channels = Member::create(db, &server, &user, None).await?;
\* Ok(Json(InviteJoinResponse::Server { channels: .., server: server.into() }))
CreateMemberStep(r) ==
    /\ reqs[r].pc = "create"
    /\ \E o \in MemberCreate(reqs[r].server, reqs[r].user, members, faults) :
          /\ reqs' = [reqs EXCEPT ![r] =
                        IF o.err # NoErr THEN Return(@, "member_create", Propagate(o.err))
                        ELSE Proceed([@ EXCEPT !.created = o.val.channels,
                                               !.writes = @ + 1,
                                               !.result = ServerResponse(
                                                   BuildChannels(o.val.channels),
                                                   ServerInto(reqs[r].server))],
                                     "member_create")]
          /\ members' = o.val.members
          /\ Fault(o.err)
    /\ UNCHANGED channels

\* let mut channel = db.fetch_channel(channel).await?;
FetchChannelStep(r) ==
    /\ reqs[r].pc = "fetch_channel"
    /\ \E o \in FetchChannel(reqs[r].invite.channel, channels, faults) :
          /\ reqs' = [reqs EXCEPT ![r] =
                        IF o.err # NoErr THEN Return(@, "fetch_channel", Propagate(o.err))
                        ELSE Proceed([@ EXCEPT !.channel = o.val], "fetch_channel")]
          /\ Fault(o.err)
    /\ UNCHANGED <<members, channels>>

AddUserToGroupStep_Unchecked(r) ==
    /\ reqs[r].pc = "add"
    /\ \E o \in AddUserToGroup(reqs[r].channel, reqs[r].user, channels, faults) :
          /\ reqs' = [reqs EXCEPT ![r] =
                        Proceed([@ EXCEPT !.channel = o.val.local,
                                          !.writes = IF o.err = NoErr THEN @ + 1 ELSE @],
                                "add_user_to_group")]
          /\ channels' = o.val.stored
          /\ Fault(o.err)
    /\ UNCHANGED members

AddUserToGroupStep_WriteBack(r) ==
    /\ reqs[r].pc = "add"
    /\ \E o \in AddUserToGroup(reqs[r].channel, reqs[r].user, channels, faults) :
          /\ reqs' = [reqs EXCEPT ![r] =
                        IF o.err # NoErr THEN Return(@, "add_user_to_group", Propagate(o.err))
                        ELSE Proceed([@ EXCEPT !.channel = o.val.local,
                                               !.writes = @ + 1,
                                               !.committed = o.val.local.recipients],
                                     "add_user_to_group")]
          /\ channels' = IF o.err # NoErr THEN channels
                         ELSE [channels EXCEPT ![o.val.local.id].recipients =
                                                   o.val.local.recipients]
          /\ Fault(o.err)
    /\ UNCHANGED members

\* channel.add_user_to_group(db, &user, creator).await?;
\* `committed` remembers the stored recipient list as this call left it.
AddUserToGroupStep(r) ==
    /\ reqs[r].pc = "add"
    /\ \E o \in AddUserToGroup(reqs[r].channel, reqs[r].user, channels, faults) :
          /\ reqs' = [reqs EXCEPT ![r] =
                        IF o.err # NoErr THEN Return(@, "add_user_to_group", Propagate(o.err))
                        ELSE Proceed([@ EXCEPT !.channel = o.val.local,
                                               !.writes = @ + 1,
                                               !.committed =
                                                   o.val.stored[o.val.local.id].recipients],
                                     "add_user_to_group")]
          /\ channels' = o.val.stored
          /\ Fault(o.err)
    /\ UNCHANGED members

FetchUsersStep_IgnoreError(r) ==
    /\ reqs[r].pc = "fetch_users"
    /\ \E o \in FetchUsers(reqs[r].channel.recipients, faults) :
          /\ reqs' = [reqs EXCEPT ![r] =
                        [Proceed([@ EXCEPT !.fetched = o.val], "fetch_users")
                            EXCEPT !.log = Append(reqs[r].log, Entry("fetch_users", o.err))]]
          /\ Fault(o.err)
    /\ UNCHANGED <<members, channels>>

\* if let Channel::Group { recipients, .. } = &channel {
\*     .. db.fetch_users(&recipients).await? ..
\* } else { unreachable!() }
FetchUsersStep(r) ==
    /\ reqs[r].pc = "fetch_users"
    /\ IF reqs[r].channel.kind # "Group"
       THEN /\ reqs' = [reqs EXCEPT ![r] = [@ EXCEPT !.pc = "panicked", !.result = Panic]]
            /\ UNCHANGED faults
       ELSE \E o \in FetchUsers(reqs[r].channel.recipients, faults) :
               /\ reqs' = [reqs EXCEPT ![r] =
                             IF o.err # NoErr
                             THEN Return(@, "fetch_users", Propagate(o.err))
                             ELSE Proceed([@ EXCEPT !.fetched = o.val], "fetch_users")]
               /\ Fault(o.err)
    /\ UNCHANGED <<members, channels>>

\* Ok(Json(InviteJoinResponse::Group {
\*     users: join_all(.. into_known(&user) ..).await, channel: channel.into() }))
ProjectStep(r) ==
    /\ reqs[r].pc = "project"
    /\ reqs' = [reqs EXCEPT ![r] =
                  Proceed([@ EXCEPT !.result =
                              GroupResponse(BuildUsers(reqs[r].fetched, reqs[r].user),
                                            ChannelInto(reqs[r].channel))],
                          "into_known")]
    /\ UNCHANGED <<members, channels, faults>>

(* -------------------------- specification ----------------------------- *)

Init ==
    /\ reqs = [r \in Requests |-> Fresh]
    /\ members = {}
    /\ channels = InitChannels
    /\ faults = 0

Next ==
    \E r \in Requests :
        \/ Receive(r)
        \/ BotCheck(r)
        \/ QuotaCheck(r)
        \/ Resolve(r)
        \/ FetchServerStep(r)
        \/ CreateMemberStep(r)
        \/ FetchChannelStep(r)
        \/ AddUserToGroupStep(r)
        \/ FetchUsersStep(r)
        \/ ProjectStep(r)

Spec == Init /\ [][Next]_vars

(* ------------------------------ claims -------------------------------- *)

Done(q) == q.pc = "done"

Admitted(q) == Done(q) /\ q.result.tag \in {"Server", "Group"}

Rejected(q) == Done(q) /\ q.result.tag = "Err"

Ops(q) == [i \in 1..Len(q.log) |-> q.log[i].op]

IsPrefix(s, t) == Len(s) <= Len(t) /\ \A i \in 1..Len(s) : s[i] = t[i]

MutationOps == {"member_create", "add_user_to_group"}

NoFault(q) == \A i \in 1..Len(q.log) : q.log[i].err # "StoreUnavailable"

OverQuota(u) == OtherServers(u) >= ServersLimit

ServerPipeline ==
    <<"bot_check", "can_acquire_server", "as_invite", "fetch_server", "member_create">>

GroupPipeline ==
    <<"bot_check", "can_acquire_server", "as_invite", "fetch_channel",
      "add_user_to_group", "fetch_users", "into_known">>

\* C1: a request whose acting user is a bot, whatever its invite id, ends
\* at the bot check with the IsBot error; it issues no collaborator call at
\* all, commits no store mutation, and no bot is ever found among the
\* Member records or among a group's recipients.
C1_BotRejectedBeforeAnyWrite ==
    /\ \A r \in Requests :
          LET q == reqs[r] IN
          (q.user \in Bots /\ q.pc \notin {"idle", "bot_check"}) =>
              /\ Done(q)
              /\ q.result = ErrResult("IsBot")
              /\ Ops(q) = <<"bot_check">>
              /\ q.writes = 0
    /\ \A m \in members : m[2] \notin Bots
    /\ \A c \in DOMAIN channels : \A b \in Bots : ~Contains(channels[c].recipients, b)

\* C1 witness: two bot requests, one on a valid group invite and one on an
\* unknown invite id, both over.
C1_Witness ==
    \E r1, r2 \in Requests :
        /\ reqs[r1].user \in Bots /\ reqs[r1].target = "inv_g1" /\ Done(reqs[r1])
        /\ reqs[r2].user \in Bots /\ reqs[r2].target = "inv_zz" /\ Done(reqs[r2])

\* C2: a request that resolved a Server invite whose server is not in the
\* store never calls Member::create and creates no Member record; once the
\* store has answered its fetch_server call the request is over with the
\* NotFound error.
C2_DanglingServerNotFound ==
    /\ \A r \in Requests :
          LET q == reqs[r] IN
          (q.invite.kind = "Server" /\ q.invite.server \notin DOMAIN Servers) =>
              /\ q.writes = 0
              /\ \A i \in 1..Len(q.log) : q.log[i].op # "member_create"
              /\ (q.pc # "fetch_server" /\ NoFault(q)) =>
                     (Done(q) /\ q.result = ErrResult("NotFound"))
    /\ \A m \in members : m[1] \in DOMAIN Servers

\* C2 witness: an eligible user redeemed the invite of the missing server
\* and was answered.
C2_Witness ==
    \E r \in Requests :
        /\ reqs[r].user = "U1" /\ reqs[r].target = "inv_s0"
        /\ reqs[r].invite.server = "S0"
        /\ Done(reqs[r]) /\ NoFault(reqs[r])

C4_ServerResponseIsCreateResult ==
    \A r \in Requests :
        LET q == reqs[r] IN
        (Admitted(q) /\ q.result.tag = "Server") =>
            /\ Len(q.result.channels) = Len(q.created)
            /\ \A i \in 1..Len(q.created) : q.result.channels[i] = ChannelInto(q.created[i])
            /\ q.result.server = ServerInto(q.server)
            /\ q.server = Servers[q.invite.server]
            /\ <<q.server.id, q.user>> \in members

\* C4 witness: an admitted Server join whose create call returned two
\* different channels.
C4_Witness ==
    \E r \in Requests :
        /\ Admitted(reqs[r]) /\ reqs[r].result.tag = "Server"
        /\ Len(reqs[r].created) = 2
        /\ reqs[r].created[1] # reqs[r].created[2]

\* C5: a non-bot user whose server quota is used up is rejected at the
\* quota check, whatever kind of invite the id names: the request is over
\* after the bot check and the quota check, with the error the quota check
\* returned (the quota error unless the store failed), before the invite
\* was resolved or dispatched on, and without a store mutation; such a user
\* never becomes a Member or a new recipient.  The same holds of any
\* request whose quota check returned the quota error.
C5_QuotaBeforeDispatch ==
    /\ \A r \in Requests :
          LET q == reqs[r] IN
          /\ (q.user \in Users \ Bots /\ OverQuota(q.user)
                 /\ q.pc \notin {"idle", "bot_check", "quota"}) =>
                 /\ Done(q)
                 /\ Ops(q) = <<"bot_check", "can_acquire_server">>
                 /\ q.log[2].err \in {"QuotaExceeded", "StoreUnavailable"}
                 /\ q.result = ErrResult(q.log[2].err)
                 /\ q.invite = NoInvite
                 /\ q.writes = 0
          /\ \A i \in 1..Len(q.log) :
                 (q.log[i].op = "can_acquire_server" /\ q.log[i].err = "QuotaExceeded") =>
                     /\ i = Len(q.log)
                     /\ q.result = ErrResult("QuotaExceeded")
                     /\ q.invite = NoInvite
                     /\ q.writes = 0
    /\ \A u \in Users :
          OverQuota(u) =>
              /\ \A m \in members : m[2] # u
              /\ \A c \in DOMAIN channels :
                     Count(channels[c].recipients, u) = Count(InitChannels[c].recipients, u)

\* C5 witness: the user at quota redeemed a Server invite in one request
\* and a Group invite in another, and both got the quota error.
C5_Witness ==
    \E r1, r2 \in Requests :
        /\ reqs[r1].user = "U3" /\ reqs[r1].target = "inv_s1"
        /\ reqs[r1].result = ErrResult("QuotaExceeded")
        /\ reqs[r2].user = "U3" /\ reqs[r2].target = "inv_g1"
        /\ reqs[r2].result = ErrResult("QuotaExceeded")

\* One step of request r.
StepOf(r) ==
    \/ BotCheck(r) \/ QuotaCheck(r) \/ Resolve(r) \/ FetchServerStep(r)
    \/ CreateMemberStep(r) \/ FetchChannelStep(r) \/ AddUserToGroupStep(r)
    \/ FetchUsersStep(r) \/ ProjectStep(r)

C7_PipelineOrderAndFirstError ==
    \A r \in Requests :
        LET q == reqs[r]
            n == Len(q.log)
        IN  /\ IsPrefix(Ops(q), ServerPipeline) \/ IsPrefix(Ops(q), GroupPipeline)
            /\ q.invite.kind = "Server" => IsPrefix(Ops(q), ServerPipeline)
            /\ q.invite.kind = "Group" => IsPrefix(Ops(q), GroupPipeline)
            /\ \A i \in 1..n : (i < n) => q.log[i].err = NoErr
            /\ (n > 0 /\ q.log[n].err # NoErr) =>
                   (Done(q) /\ q.result = ErrResult(q.log[n].err))
            /\ Rejected(q) => (n > 0 /\ q.log[n].err = q.result.err /\ q.result.err # NoErr)
            /\ q.writes = Cardinality({i \in 1..n : q.log[i].op \in MutationOps
                                                     /\ q.log[i].err = NoErr})

\* C7 witness: one request was rejected by add_user_to_group, in the
\* middle of the Group pipeline, and another by fetch_users, after its
\* append was committed.
C7_Witness ==
    \E r1, r2 \in Requests :
        /\ Rejected(reqs[r1])
        /\ Ops(reqs[r1]) = SubSeq(GroupPipeline, 1, 5)
        /\ reqs[r1].result.err = "AlreadyMember"
        /\ Rejected(reqs[r2])
        /\ Ops(reqs[r2]) = SubSeq(GroupPipeline, 1, 6)

\* C8 as stated: the invite is resolved before the admission policy runs,
\* so every bot check and every quota check of a request comes after its
\* as_invite call.
C8_ResolveBeforePolicy ==
    \A r \in Requests :
        \A i \in 1..Len(reqs[r].log) :
            reqs[r].log[i].op \in {"bot_check", "can_acquire_server"} =>
                \E j \in 1..(i - 1) : reqs[r].log[j].op = "as_invite"

\* C8 amended: the admission policy runs before the invite is resolved:
\* as_invite is the third step of a request, after a passed bot check and a
\* passed quota check; every fetch or mutation of the dispatch comes after
\* a successful as_invite; and a request rejected by the policy holds no
\* resolved invite, so a bot with an unknown invite id gets IsBot and never
\* NotFound.
C8_PolicyBeforeResolve ==
    \A r \in Requests :
        LET q == reqs[r] IN
        /\ \A i \in 1..Len(q.log) :
              /\ q.log[i].op = "as_invite" =>
                    /\ i = 3
                    /\ q.log[1] = Entry("bot_check", NoErr)
                    /\ q.log[2] = Entry("can_acquire_server", NoErr)
              /\ q.log[i].op \notin {"bot_check", "can_acquire_server", "as_invite"} =>
                    (i > 3 /\ q.log[3] = Entry("as_invite", NoErr))
        /\ (Rejected(q) /\ Len(q.log) < 3) => q.invite = NoInvite
        /\ (q.user \in Bots /\ q.pc # "idle") => q.invite = NoInvite

\* C8 witness: a request that resolved its invite and went on to the
\* dispatch, and a bot request on an unknown invite id that is over.
C8_Witness ==
    \E r1, r2 \in Requests :
        /\ Len(reqs[r1].log) >= 4 /\ reqs[r1].invite # NoInvite
        /\ reqs[r2].user \in Bots /\ reqs[r2].target = "inv_zz" /\ Done(reqs[r2])

\* C9 as stated: on an admitted Group join the recipient list of the
\* response holds the actor and is the stored recipient list as the
\* request's own append left it.
C9_ResponseListIsCommittedList ==
    \A r \in Requests :
        LET q == reqs[r] IN
        (Admitted(q) /\ q.result.tag = "Group") =>
            /\ Contains(q.result.channel.recipients, q.user)
            /\ q.result.channel.recipients = q.committed

\* C10: when two requests are over in which two different users, neither
\* a recipient before, redeemed the invite of group G1, both passed the
\* admission policy, no other request of either user redeemed that invite,
\* and the store failed in neither, then both were admitted and the stored
\* recipient list still starts with the earlier recipients and holds each
\* of the two users exactly once.
C10_NoLostUpdate ==
    \A r1, r2 \in Requests :
        LET q1 == reqs[r1]
            q2 == reqs[r2]
            stored == channels["G1"].recipients
        IN  (/\ r1 # r2 /\ Done(q1) /\ Done(q2)
             /\ q1.target = "inv_g1" /\ q2.target = "inv_g1"
             /\ q1.user # q2.user
             /\ Len(q1.log) >= 2 /\ q1.log[2] = Entry("can_acquire_server", NoErr)
             /\ Len(q2.log) >= 2 /\ q2.log[2] = Entry("can_acquire_server", NoErr)
             /\ ~Contains(InitRecipients, q1.user) /\ ~Contains(InitRecipients, q2.user)
             /\ \A r3 \in Requests \ {r1, r2} :
                    ~(reqs[r3].target = "inv_g1" /\ reqs[r3].user \in {q1.user, q2.user})
             /\ NoFault(q1) /\ NoFault(q2)) =>
                /\ q1.result.tag = "Group" /\ q2.result.tag = "Group"
                /\ IsPrefix(InitRecipients, stored)
                /\ Count(stored, q1.user) = 1
                /\ Count(stored, q2.user) = 1

\* C10 witness: both users were admitted and each fetched the channel
\* before the other's append, so neither response lists the other user.
C10_Witness ==
    \E r1, r2 \in Requests :
        /\ r1 # r2
        /\ reqs[r1].target = "inv_g1" /\ reqs[r2].target = "inv_g1"
        /\ reqs[r1].user = "U1" /\ reqs[r2].user = "U2"
        /\ reqs[r1].result.tag = "Group" /\ reqs[r2].result.tag = "Group"
        /\ ~Contains(reqs[r1].result.channel.recipients, "U2")
        /\ ~Contains(reqs[r2].result.channel.recipients, "U1")

====
